---- MODULE Spec2Model ----
(***************************************************************************)
(* Model of the mail sender: EmailConfig, EmailSender.connect,             *)
(* EmailSender.send_email, EmailSender._add_attachment, EmailSender.close  *)
(* and main.  The SMTP library, the file system and the process            *)
(* environment are the nondeterministic surroundings of the program.       *)
(***************************************************************************)
EXTENDS Integers, Sequences, FiniteSets, TLC

VARIABLES env, pc, calls, ret, propagated,
          smtp_client, sessions, netOps,
          attempt, outcomes, sleeps,
          caller, heap, heap0, receivers, message, sent, bccSeen

vars == <<env, pc, calls, ret, propagated, smtp_client, sessions, netOps,
          attempt, outcomes, sleeps,
          caller, heap, heap0, receivers, message, sent, bccSeen>>

-----------------------------------------------------------------------------
(* Bounds of the exploration *)

\* number of method calls the client makes on one EmailSender
MaxCalls == 3
\* longest attachment list the client passes
MaxAtt == 2

-----------------------------------------------------------------------------
(* Program constants *)

max_retries == 3
retry_delay == 2

-----------------------------------------------------------------------------
(* Python values *)

None == [t |-> "none", v |-> "", id |-> 0]
Str(s) == [t |-> "str", v |-> s, id |-> 0]
Ref(i) == [t |-> "list", v |-> "", id |-> i]

\* the list objects the caller owns
RcvList == 1
CcList == 2
BccList == 3
AttList == 4

\* no exception
NoExc == "none"

\* `except Exception` catches every exception class the surroundings raise
ExceptException(e) ==
    e \in {"ValueError", "TypeError", "AttributeError", "OSError", "SMTPException"}

-----------------------------------------------------------------------------
(* EmailConfig *)

Truthy(s) == s # "None" /\ s # ""

All(xs) == \A i \in DOMAIN xs : Truthy(xs[i])

\* EmailConfig.__init__: the exception it raises
EmailConfigEmailOnly(e) == IF ~Truthy(e.EMAIL) THEN "ValueError" ELSE NoExc
EmailConfig(e) ==
    IF ~All(<<e.EMAIL, e.EMAIL_PASSWORD>>) THEN "ValueError" ELSE NoExc

-----------------------------------------------------------------------------
(* The file system the attachments are read from *)

File(e, r, i) == [exists |-> e, readable |-> r, image |-> i]

Paths == {"certificate_tom.png", "gone.png", "locked.pdf", "notes.txt",
          "fake.GIF"}

\* exists: Path.exists(); readable: open/read succeeds;
\* image: MIMEImage can guess the image subtype of the content
FS ==
    [p \in Paths |->
        CASE p = "certificate_tom.png" -> File(TRUE, TRUE, TRUE)
          [] p = "gone.png" -> File(FALSE, FALSE, FALSE)
          [] p = "locked.pdf" -> File(TRUE, FALSE, FALSE)
          [] p = "notes.txt" -> File(TRUE, TRUE, FALSE)
          [] p = "fake.GIF" -> File(TRUE, TRUE, FALSE)]

\* Path(file_path).suffix
Suffix(p) ==
    CASE p = "certificate_tom.png" -> ".png"
      [] p = "gone.png" -> ".png"
      [] p = "locked.pdf" -> ".pdf"
      [] p = "notes.txt" -> ".txt"
      [] p = "fake.GIF" -> ".GIF"

\* str.lower() on the suffixes above
Lower(s) == IF s = ".GIF" THEN ".gif" ELSE s

ImageSuffixes == {".jpg", ".jpeg", ".png", ".gif"}

-----------------------------------------------------------------------------
(* EmailSender._add_attachment *)

Part(type, name) == [type |-> type, filename |-> name]

\* the exception raised inside the try block, or NoExc
AttachRaises(p) ==
    IF ~FS[p].exists THEN NoExc
    ELSE IF ~FS[p].readable THEN "OSError"
    ELSE IF Lower(Suffix(p)) \in ImageSuffixes /\ ~FS[p].image THEN "TypeError"
    ELSE NoExc

\* the MIME object built for a file that was read
AttachmentPart(p) ==
    IF Lower(Suffix(p)) \in ImageSuffixes
    THEN Part("image", p)
    ELSE Part("application", p)

\* faulty variant: the except clause is missing, an error leaves the method
add_attachment_uncaught(parts, p) ==
    IF ~FS[p].exists THEN [exc |-> NoExc, parts |-> parts]
    ELSE IF AttachRaises(p) # NoExc THEN [exc |-> AttachRaises(p), parts |-> parts]
    ELSE [exc |-> NoExc, parts |-> Append(parts, AttachmentPart(p))]

\* one call: the parts of the message afterwards, and the exception
\* that leaves the method
add_attachment(parts, p) ==
    IF ~FS[p].exists THEN [exc |-> NoExc, parts |-> parts]
    ELSE IF AttachRaises(p) # NoExc
         THEN IF ExceptException(AttachRaises(p))
              THEN [exc |-> NoExc, parts |-> parts]
              ELSE [exc |-> AttachRaises(p), parts |-> parts]
    ELSE [exc |-> NoExc, parts |-> Append(parts, AttachmentPart(p))]

\* for attachment_path in attachments: self._add_attachment(...)
RECURSIVE AttachAll(_, _)
AttachAll(parts, paths) ==
    IF paths = <<>> THEN [exc |-> NoExc, parts |-> parts]
    ELSE LET r == add_attachment(parts, Head(paths))
         IN IF r.exc # NoExc THEN r ELSE AttachAll(r.parts, Tail(paths))

-----------------------------------------------------------------------------
(* EmailSender.send_email, message construction *)

\* ", ".join(xs): the items with the separator between them
RECURSIVE Join(_)
Join(xs) ==
    IF xs = <<>> THEN <<>>
    ELSE IF Len(xs) = 1 THEN xs
    ELSE <<Head(xs), ", ">> \o Join(Tail(xs))

\* the list object made by [receiver]
LocalList == 5

\* truth value of an optional list argument
ListTruthy(h, a) == a.t = "list" /\ h[a.id] # <<>>

NoMessage == [To |-> <<>>, hasCc |-> FALSE, Cc |-> <<>>, From |-> "", parts |-> <<>>]

\* faulty variant: the addresses are not added to the recipient list
ExtendSkipped(h, rid, a) == h

\* if xs: receivers.extend(xs)
Extend(h, rid, a) ==
    IF ListTruthy(h, a) THEN [h EXCEPT ![rid] = h[rid] \o h[a.id]] ELSE h

\* lines 118-145: headers, recipient list, bodies and attachments
Build(a, h, email) ==
    IF a.receiver.t = "none"
    THEN [exc |-> "TypeError", heap |-> h, receivers |-> 0, message |-> NoMessage]
    ELSE
    LET rid == IF a.receiver.t = "str" THEN LocalList ELSE a.receiver.id
        h1 == IF a.receiver.t = "str"
              THEN [h EXCEPT ![LocalList] = <<a.receiver.v>>] ELSE h
        to == Join(h1[rid])
        hasCc == ListTruthy(h1, a.cc)
        ccHdr == IF hasCc THEN Join(h1[a.cc.id]) ELSE <<>>
        h2 == Extend(h1, rid, a.cc)
        h3 == Extend(h2, rid, a.bcc)
        body == IF a.html # "None" /\ a.html # ""
                THEN <<Part("text/plain", ""), Part("text/html", "")>>
                ELSE <<Part("text/plain", "")>>
        att == IF ListTruthy(h3, a.attachments)
               THEN AttachAll(body, h3[a.attachments.id])
               ELSE [exc |-> NoExc, parts |-> body]
    IN [exc |-> att.exc, heap |-> h3, receivers |-> rid,
        message |-> [To |-> to, hasCc |-> hasCc, Cc |-> ccHdr,
                     From |-> email, parts |-> att.parts]]

-----------------------------------------------------------------------------
(* The retry loops and the except clauses *)

\* faulty variant: a failed last attempt also sleeps and goes round again
AfterConnectAttemptRetryAlways(o, a) ==
    IF o = "ok" THEN [done |-> TRUE, ret |-> "True", attempt |-> a, sleep |-> FALSE]
    ELSE [done |-> FALSE, ret |-> "pending", attempt |-> a + 1, sleep |-> TRUE]

\* connect, lines 75-89: what follows an attempt with outcome o
AfterConnectAttempt(o, a) ==
    IF o = "ok" THEN [done |-> TRUE, ret |-> "True", attempt |-> a, sleep |-> FALSE]
    ELSE IF a < max_retries - 1
         THEN [done |-> FALSE, ret |-> "pending", attempt |-> a + 1, sleep |-> TRUE]
         ELSE [done |-> TRUE, ret |-> "False", attempt |-> a, sleep |-> FALSE]

\* faulty variant: the loop goes on after a successful sendmail
AfterSendAttemptNoReturn(o, a) ==
    IF o = "ok" /\ a < max_retries - 1
    THEN [done |-> FALSE, ret |-> "pending", attempt |-> a + 1, sleep |-> FALSE]
    ELSE IF o = "ok"
    THEN [done |-> TRUE, ret |-> "True", attempt |-> a, sleep |-> FALSE]
    ELSE IF a < max_retries - 1
         THEN [done |-> FALSE, ret |-> "pending", attempt |-> a + 1, sleep |-> TRUE]
         ELSE [done |-> TRUE, ret |-> "False", attempt |-> a, sleep |-> FALSE]

\* send_email, lines 148-162: what follows an attempt with outcome o
AfterSendAttempt(o, a) ==
    IF o = "ok" THEN [done |-> TRUE, ret |-> "True", attempt |-> a, sleep |-> FALSE]
    ELSE IF a < max_retries - 1
         THEN [done |-> FALSE, ret |-> "pending", attempt |-> a + 1, sleep |-> TRUE]
         ELSE [done |-> TRUE, ret |-> "False", attempt |-> a, sleep |-> FALSE]

\* faulty variant: send_email only handles the errors of the SMTP library
SendCatchesSmtpOnly(e) == e = "SMTPException"

\* the except clauses of send_email, lines 157 and 164
SendCatches(e) == ExceptException(e)

\* faulty variant: close has no except clause
CloseCatchesNothing(e) == FALSE

\* the except clause of close, line 202
CloseCatches(e) == ExceptException(e)

-----------------------------------------------------------------------------
(* The arguments the caller passes to send_email, and the objects it owns *)

Range(f) == {f[i] : i \in DOMAIN f}

RECURSIVE SeqsUpTo(_, _)
SeqsUpTo(S, n) ==
    IF n = 0 THEN {<<>>}
    ELSE LET shorter == SeqsUpTo(S, n - 1)
         IN shorter \cup {Append(q, x) : q \in shorter, x \in S}

Heap(rcv, cc, bcc, att) == <<rcv, cc, bcc, att, <<>> >>

Args(receiver, cc, bcc, html, attachments) ==
    [receiver |-> receiver, cc |-> cc, bcc |-> bcc, html |-> html,
     attachments |-> attachments]

\* the call of main (lines 214-223) with each shape of the recipient arguments
RecipientCallers ==
    {<<Args(r, c[1], b[1], "<h1>", Ref(AttList)),
       Heap(<<"to@x">>, c[2], b[2], <<"certificate_tom.png">>)>> :
        r \in {Str("to@x"), None, Ref(RcvList)},
        c \in {<<None, <<"cc@x">> >>, <<Ref(CcList), <<>> >>,
               <<Ref(CcList), <<"cc@x">> >>, <<Ref(RcvList), <<"cc@x">> >>},
        b \in {<<None, <<"bcc@x">> >>, <<Ref(BccList), <<>> >>,
               <<Ref(BccList), <<"bcc@x">> >>}}

\* the call of main with each list of attachment paths
AttachmentCallers ==
    {<<Args(Ref(RcvList), Ref(CcList), None, "<h1>", Ref(AttList)),
       Heap(<<"to@x">>, <<"cc@x">>, <<>>, att)>> :
        att \in SeqsUpTo(Paths, MaxAtt)}

\* the call of main with and without the optional body and attachments
BodyCallers ==
    {<<Args(Ref(RcvList), Ref(CcList), None, h, a),
       Heap(<<"to@x">>, <<"cc@x">>, <<>>, <<"certificate_tom.png">>)>> :
        h \in {"None", "", "<h1>"}, a \in {None, Ref(AttList)}}

Callers == RecipientCallers \cup AttachmentCallers \cup BodyCallers

EnvValues == [EMAIL : {"None", "", "sender@x"}, EMAIL_PASSWORD : {"None", "", "pw"}]

-----------------------------------------------------------------------------
(* The state machine *)

Init ==
    /\ env \in EnvValues
    /\ pc = "main"
    /\ calls = <<>>
    /\ ret = "pending"
    /\ propagated = FALSE
    /\ smtp_client = 0
    /\ sessions = <<>>
    /\ netOps = 0
    /\ attempt = 0
    /\ outcomes = <<>>
    /\ sleeps = <<>>
    /\ \E c \in Callers : caller = c[1] /\ heap = c[2] /\ heap0 = c[2]
    /\ receivers = 0
    /\ message = NoMessage
    /\ sent = <<>>
    /\ bccSeen = {}

senderVars == <<smtp_client, sessions, netOps>>
loopVars == <<attempt, outcomes, sleeps>>
msgVars == <<heap, heap0, receivers, message, sent, bccSeen>>

\* an exception leaves the method and nobody handles it
Propagate ==
    /\ pc' = "done"
    /\ ret' = "raise"
    /\ propagated' = TRUE

\* main, lines 207-212 and 230: EmailConfig() and EmailSender(config)
LoadConfig ==
    /\ pc = "main"
    /\ IF EmailConfig(env) = NoExc
       THEN pc' = "idle" /\ ret' = "pending" /\ propagated' = propagated
       ELSE IF ExceptException(EmailConfig(env))
            THEN pc' = "done" /\ ret' = "normal" /\ propagated' = propagated
            ELSE Propagate
    /\ UNCHANGED <<env, calls, caller, senderVars, loopVars, msgVars>>

\* sender.connect() is called (also by __enter__)
CallConnect ==
    /\ pc = "idle"
    /\ Len(calls) < MaxCalls
    /\ pc' = "connect"
    /\ calls' = Append(calls, "connect")
    /\ attempt' = 0
    /\ outcomes' = <<>>
    /\ sleeps' = <<>>
    /\ ret' = "pending"
    /\ UNCHANGED <<env, propagated, caller, senderVars, msgVars>>

NewSession(loggedIn) == [loggedIn |-> loggedIn, closed |-> FALSE, quits |-> 0]

\* connect, one round of the loop of lines 75-89
ConnectAttempt ==
    /\ pc = "connect"
    /\ IF attempt >= max_retries
       THEN /\ pc' = "returned"
            /\ ret' = "None"
            /\ UNCHANGED <<propagated, senderVars, loopVars>>
       ELSE \E o \in {"ok", "ctor_fail", "login_fail"} :
            /\ netOps' = netOps + 1
            /\ sessions' = IF o = "ctor_fail" THEN sessions
                           ELSE Append(sessions, NewSession(o = "ok"))
            /\ smtp_client' = IF o = "ctor_fail" THEN smtp_client
                              ELSE Len(sessions) + 1
            /\ outcomes' = Append(outcomes, o)
            /\ LET exc == IF o = "ctor_fail" THEN "OSError" ELSE "SMTPException"
                   nxt == AfterConnectAttempt(o, attempt)
               IN IF o # "ok" /\ ~ExceptException(exc)
                  THEN Propagate /\ UNCHANGED <<attempt, sleeps>>
                  ELSE /\ pc' = IF nxt.done THEN "returned" ELSE "connect"
                       /\ ret' = nxt.ret
                       /\ attempt' = nxt.attempt
                       /\ sleeps' = IF nxt.sleep THEN Append(sleeps, retry_delay)
                                    ELSE sleeps
                       /\ propagated' = propagated
    /\ UNCHANGED <<env, calls, caller, msgVars>>

BccGiven(a, h) == IF a.bcc.t = "list" THEN Range(h[a.bcc.id]) ELSE {}

\* send_email is called: lines 118-145
SendEmailBegin ==
    /\ pc = "idle"
    /\ Len(calls) < MaxCalls
    /\ calls' = Append(calls, "send_email")
    /\ heap0' = heap
    /\ bccSeen' = bccSeen \cup BccGiven(caller, heap)
    /\ LET b == Build(caller, heap, env.EMAIL)
       IN /\ heap' = b.heap
          /\ receivers' = b.receivers
          /\ message' = b.message
          /\ IF b.exc = NoExc
             THEN pc' = "send" /\ ret' = "pending" /\ propagated' = propagated
             ELSE IF SendCatches(b.exc)
                  THEN pc' = "returned" /\ ret' = "False" /\ propagated' = propagated
                  ELSE Propagate
    /\ attempt' = 0
    /\ outcomes' = <<>>
    /\ sleeps' = <<>>
    /\ sent' = <<>>
    /\ UNCHANGED <<env, caller, senderVars>>

\* the outcomes of self.smtp_client.sendmail(...)
SendOutcomes ==
    IF smtp_client = 0 THEN {"AttributeError"}
    ELSE IF sessions[smtp_client].closed THEN {"SMTPException"}
    ELSE {"ok", "SMTPException"}

\* send_email, one round of the loop of lines 148-162
SendAttempt ==
    /\ pc = "send"
    /\ IF attempt >= max_retries
       THEN /\ pc' = "returned"
            /\ ret' = "None"
            /\ UNCHANGED <<propagated, netOps, loopVars, sent>>
       ELSE \E o \in SendOutcomes :
            /\ netOps' = IF smtp_client = 0 THEN netOps ELSE netOps + 1
            /\ sent' = IF smtp_client = 0 THEN sent
                       ELSE Append(sent, [session |-> smtp_client,
                                          message |-> message,
                                          rcpts |-> heap[receivers],
                                          ok |-> (o = "ok")])
            /\ outcomes' = Append(outcomes, o)
            /\ LET nxt == AfterSendAttempt(o, attempt)
               IN IF o # "ok" /\ ~SendCatches(o)
                  THEN Propagate /\ UNCHANGED <<attempt, sleeps>>
                  ELSE /\ pc' = IF nxt.done THEN "returned" ELSE "send"
                       /\ ret' = nxt.ret
                       /\ attempt' = nxt.attempt
                       /\ sleeps' = IF nxt.sleep THEN Append(sleeps, retry_delay)
                                    ELSE sleeps
                       /\ propagated' = propagated
    /\ UNCHANGED <<env, calls, caller, smtp_client, sessions,
                   heap, heap0, receivers, message, bccSeen>>

\* the outcomes of self.smtp_client.quit()
QuitOutcomes ==
    IF sessions[smtp_client].closed THEN {"SMTPException"}
    ELSE {"ok", "SMTPException"}

\* sender.close() (also by __exit__), lines 196-203
Close ==
    /\ pc = "idle"
    /\ Len(calls) < MaxCalls
    /\ calls' = Append(calls, "close")
    /\ IF smtp_client = 0
       THEN /\ pc' = "returned"
            /\ ret' = "None"
            /\ UNCHANGED <<propagated, senderVars>>
       ELSE \E o \in QuitOutcomes :
            /\ netOps' = netOps + 1
            /\ sessions' = [sessions EXCEPT ![smtp_client] =
                               [@ EXCEPT !.quits = @ + 1, !.closed = TRUE]]
            /\ smtp_client' = smtp_client
            /\ IF o # "ok" /\ ~CloseCatches(o)
               THEN Propagate
               ELSE pc' = "returned" /\ ret' = "None" /\ propagated' = propagated
    /\ attempt' = 0
    /\ outcomes' = <<>>
    /\ sleeps' = <<>>
    /\ UNCHANGED <<env, caller, msgVars>>

\* the call returns to the caller: its local variables are gone
Return ==
    /\ pc = "returned"
    /\ pc' = "idle"
    /\ ret' = "pending"
    /\ attempt' = 0
    /\ outcomes' = <<>>
    /\ sleeps' = <<>>
    /\ receivers' = 0
    /\ message' = NoMessage
    /\ sent' = <<>>
    /\ heap' = [heap EXCEPT ![LocalList] = <<>>]
    /\ heap0' = heap'
    /\ UNCHANGED <<env, calls, propagated, caller, senderVars, bccSeen>>

Next ==
    \/ LoadConfig
    \/ CallConnect
    \/ ConnectAttempt
    \/ SendEmailBegin
    \/ SendAttempt
    \/ Close
    \/ Return

Spec == Init /\ [][Next]_vars

-----------------------------------------------------------------------------
(* Properties *)

CurrentCall == IF calls = <<>> THEN "none" ELSE calls[Len(calls)]

InConnect == CurrentCall = "connect" /\ pc \in {"connect", "returned"}
InSend == CurrentCall = "send_email" /\ pc \in {"send", "returned"}

\* send_email has constructed its message
MessageBuilt == InSend /\ receivers # 0

WithBlock == <<"connect", "send_email", "close">>

\* the addresses named in a header made with Join
HeaderAddrs(h) == Range(h) \ {", "}

\* C1: by the time the with-block has exited, at most one SMTP session was
\* opened and every session that was opened has received exactly one quit().
C1_ReleasedExactlyOnce ==
    (calls = WithBlock /\ pc \in {"returned", "idle"}) =>
        /\ Len(sessions) <= 1
        /\ \A i \in DOMAIN sessions : sessions[i].quits = 1

\* C2: connect() makes at most 3 attempts, sleeps 2 seconds after a failed
\* attempt only when another attempt follows, returns True at the first
\* successful attempt and makes no further one, and returns False only after
\* 3 failed attempts.
C2_ConnectRetry ==
    InConnect =>
        /\ Len(outcomes) <= 3
        /\ \A i \in DOMAIN sleeps : sleeps[i] = 2
        /\ \A i \in DOMAIN outcomes :
              outcomes[i] = "ok" => (i = Len(outcomes) /\ pc = "returned" /\ ret = "True")
        /\ pc = "connect" => Len(sleeps) = Len(outcomes)
        /\ pc = "returned" =>
              /\ ret \in {"True", "False"}
              /\ Len(outcomes) >= 1
              /\ Len(sleeps) = Len(outcomes) - 1
              /\ ret = "True" => outcomes[Len(outcomes)] = "ok"
              /\ ret = "False" =>
                    /\ Len(outcomes) = 3
                    /\ \A i \in DOMAIN outcomes : outcomes[i] # "ok"

\* connect() has returned False after three failed attempts and two waits
C2_Witness ==
    /\ InConnect /\ pc = "returned" /\ ret = "False"
    /\ Len(outcomes) = 3 /\ sleeps = <<2, 2>>
    /\ outcomes[2] = "login_fail"

\* C3: within one send_email call sendmail is invoked at most 3 times, each
\* time with the one message built before the loop and the same recipient
\* list; no invocation follows a successful one; send_email returns True iff
\* an invocation succeeded; an accepted first invocation means True and
\* exactly one message received.
C3_SendRetry ==
    InSend =>
        /\ Len(sent) <= 3
        /\ \A i \in DOMAIN sent :
              /\ sent[i].message = message
              /\ sent[i].message = sent[1].message
              /\ sent[i].rcpts = sent[1].rcpts
              /\ sent[i].ok => i = Len(sent)
        /\ Cardinality({i \in DOMAIN sent : sent[i].ok}) <= 1
        /\ pc = "returned" => (ret = "True" <=> \E i \in DOMAIN sent : sent[i].ok)
        /\ (sent # <<>> /\ sent[1].ok) =>
              (pc = "returned" /\ ret = "True" /\ Len(sent) = 1)

\* send_email has returned True at the third invocation of sendmail
C3_Witness ==
    /\ InSend /\ pc = "returned" /\ ret = "True"
    /\ Len(sent) = 3 /\ sent[3].ok /\ ~sent[1].ok /\ ~sent[2].ok

\* C4: send_email never raises and its result is True or False, never None,
\* also after an error in the construction of the message, after transport
\* errors and when smtp_client is None; its loop makes at most 3 rounds.
C4_SendReturnsBool ==
    /\ CurrentCall = "send_email" => (~propagated /\ pc # "done" /\ ret # "raise")
    /\ InSend => attempt < max_retries
    /\ (InSend /\ pc = "returned") => ret \in {"True", "False"}

\* send_email has returned False without a connection, after three rounds
C4_Witness ==
    /\ InSend /\ pc = "returned" /\ ret = "False"
    /\ smtp_client = 0
    /\ outcomes = <<"AttributeError", "AttributeError", "AttributeError">>

\* C5: close() never raises: a call of close always returns normally, makes
\* no transport call when smtp_client is None, and swallows the error of a
\* failing quit(), however many calls came before.
C5_CloseNeverRaises ==
    [][(calls' # calls /\ calls'[Len(calls')] = "close") =>
          /\ pc' = "returned"
          /\ ret' = "None"
          /\ ~propagated'
          /\ smtp_client = 0 => (netOps' = netOps /\ sessions' = sessions)]_vars

\* close() has returned for the second time on a session whose quit() it
\* called twice
C5_Witness ==
    /\ CurrentCall = "close" /\ pc = "returned"
    /\ smtp_client # 0
    /\ sessions[smtp_client].quits = 2

\* the recipients given to the current call of send_email
Primary == IF caller.receiver.t = "str" THEN {caller.receiver.v}
           ELSE IF caller.receiver.t = "list" THEN Range(heap0[caller.receiver.id])
           ELSE {}
CcGiven == IF caller.cc.t = "list" THEN Range(heap0[caller.cc.id]) ELSE {}

\* C6: the set of envelope recipients of every sendmail invocation is the
\* union of the primary, cc and bcc addresses given to that send_email call.
C6_RecipientUnion ==
    InSend =>
        \A i \in DOMAIN sent :
            Range(sent[i].rcpts) = Primary \cup CcGiven \cup BccGiven(caller, heap0)

\* sendmail was invoked with primary, cc and bcc addresses
C6_Witness ==
    /\ InSend /\ sent # <<>>
    /\ Range(sent[1].rcpts) = {"to@x", "cc@x", "bcc@x"}
    /\ caller.receiver.t = "str"

\* a path whose file is read and encoded
Attachable(p) ==
    /\ FS[p].exists
    /\ FS[p].readable
    /\ (Lower(Suffix(p)) \in ImageSuffixes => FS[p].image)

AttachmentsGiven ==
    IF caller.attachments.t = "list" THEN heap0[caller.attachments.id] ELSE <<>>

\* the message parts that follow the text bodies
AttachedParts == SelectSeq(message.parts, LAMBDA q : q.filename # "")

RECURSIVE PartsOf(_)
PartsOf(paths) ==
    IF paths = <<>> THEN <<>>
    ELSE <<AttachmentPart(Head(paths))>> \o PartsOf(Tail(paths))

\* C7: an attachment that is missing or cannot be read or encoded is
\* skipped, the others are attached in list order, sendmail is still
\* attempted, and the message and the result are those of a call with the
\* failing paths removed from the list.
C7_AttachmentSkipped ==
    (CurrentCall = "send_email" /\ pc \in {"send", "returned", "done"}
        /\ caller.receiver.t # "none") =>
        /\ pc # "done"
        /\ AttachedParts = PartsOf(SelectSeq(AttachmentsGiven, Attachable))
        /\ message =
              Build(caller,
                    [heap0 EXCEPT ![AttList] = SelectSeq(heap0[AttList], Attachable)],
                    env.EMAIL).message
        /\ pc = "returned" => Len(outcomes) >= 1
        /\ (pc = "returned" /\ smtp_client # 0) => sent # <<>>

\* send_email has returned True for a list with an unreadable file before a
\* readable one
C7_Witness ==
    /\ InSend /\ pc = "returned" /\ ret = "True"
    /\ AttachmentsGiven = <<"locked.pdf", "notes.txt">>
    /\ AttachedParts = <<Part("application", "notes.txt")>>

ConfigMissing == ~Truthy(env.EMAIL) \/ ~Truthy(env.EMAIL_PASSWORD)

\* C8: with EMAIL or EMAIL_PASSWORD missing or empty the configuration
\* error comes before any network activity: no connect attempt, no sendmail
\* and no quit ever happens, and main returns normally.
C8_ConfigErrorNoNetwork ==
    ConfigMissing =>
        /\ netOps = 0
        /\ sessions = <<>>
        /\ calls = <<>>
        /\ ~propagated
        /\ pc \in {"main", "done"}
        /\ pc = "done" => ret = "normal"

\* main has returned after the configuration error of an empty password
C8_Witness ==
    /\ pc = "done" /\ ret = "normal"
    /\ env.EMAIL = "sender@x" /\ env.EMAIL_PASSWORD = ""

\* C9: no bcc address of this or of an earlier send_email call appears in
\* the To or Cc header of a message, and the To header names exactly the
\* primary recipients given to the call.
C9_BccNotDisclosed ==
    MessageBuilt =>
        /\ HeaderAddrs(message.To) = Primary
        /\ HeaderAddrs(message.Cc) = CcGiven
        /\ (HeaderAddrs(message.To) \cup HeaderAddrs(message.Cc)) \cap bccSeen = {}

\* C10: when send_email has returned, the caller's receiver, cc, bcc and
\* attachments lists hold the elements they held before the call.
C10_ArgumentsUnchanged ==
    (CurrentCall = "send_email" /\ pc = "returned") =>
        \A id \in {RcvList, CcList, BccList, AttList} : heap[id] = heap0[id]

====
